---- MODULE Spec2Model ----
(***************************************************************************)
(* Model of src/verify_grid_controls.py: one sequential script that drives *)
(* a browser through the grid-selector widget and captures screenshots.    *)
(* Every call into the automation library is a step that either returns or *)
(* raises; control then follows Python's with / try / except / finally.    *)
(* The target application (what goto, the two visibility waits, the click  *)
(* and the hover meet) is state of the environment, fixed during a run.    *)
(***************************************************************************)
EXTENDS Integers, Sequences, FiniteSets

VARIABLES pc, exc, status, browser, page, trace, files, filesAtStart, run, app, sameApp

vars == <<pc, exc, status, browser, page, trace, files, filesAtStart, run, app, sameApp>>

\* ------------------------------------------------------------------ bounds
\* Number of successive invocations of the script that are explored.
MaxRuns == 2

\* ------------------------------------------------------- program constants
TriggerTimeout == 10000
PopoverTimeout == 2000

Url == "http://localhost:5173"
TriggerSel == "grid-selector-trigger"
PopoverSel == "grid-selector-popover"
CellSel == "grid-cell-2-2"

InitialPath == "verification_initial.png"
OpenPathAsInitial == "verification_initial.png"
OpenPath == "verification_open.png"
ErrorPath == "verification_error.png"
Paths == {InitialPath, OpenPath, ErrorPath}

MsgNavigating == "Navigating to app..."
MsgWaiting == "Waiting for grid controls..."
MsgInitial == "Taking initial screenshot..."
MsgOpening == "Opening grid selector..."
MsgHovering == "Hovering over cell 2x2..."
MsgOpen == "Taking open state screenshot..."
MsgCompleted == "Verification script completed successfully."
MsgError == "Error during verification"

\* ------------------------------------------------------------ environment
\* Milliseconds after which an element becomes visible; 20000 exceeds both
\* bounded waits, i.e. the element does not show up in time.
Delays == {0, 5000, 20000}

\* The externally owned web application the script is pointed at.
AppStates == [up : BOOLEAN, trigger : Delays, clickable : BOOLEAN,
              popover : Delays, cell : BOOLEAN]

\* wait_for(state="visible", timeout=t) returns iff the element is visible
\* within t milliseconds, and raises a timeout error otherwise.
WaitOk(delay, timeout) == delay <= timeout

\* ------------------------------------------------------------ call records
Call(op, arg, ok) == [op |-> op, arg |-> arg, ok |-> ok]
Log(msg) == Call("print", msg, TRUE)
Locator(sel) == Call("locator", sel, TRUE)

\* ------------------------------------------------------------ control flow
\* The statements in program order when nothing raises.
OrderHoverFirst == <<"enter", "launch", "new_page", "goto", "wait_trigger",
                     "shot_initial", "click", "hover", "wait_popover",
                     "shot_open", "completed", "finally", "exit", "ended">>
Order == <<"enter", "launch", "new_page", "goto", "wait_trigger",
           "shot_initial", "click", "wait_popover", "hover",
           "shot_open", "completed", "finally", "exit", "ended">>

\* The statements inside the try block.
TryBodyLate == {"shot_initial", "click", "wait_popover", "hover",
                "shot_open", "completed"}
TryBody == {"goto", "wait_trigger", "shot_initial", "click", "wait_popover",
            "hover", "shot_open", "completed"}

IndexOf(at) == CHOOSE i \in 1..Len(Order) : Order[i] = at

\* Where control goes when the statement at `at` returns normally.
Succ(at) == IF at = "except" THEN "finally" ELSE Order[IndexOf(at) + 1]

\* Where control goes when the statement at `at` raises.
OnRaiseContinue(at) == Succ(at)
OnRaiseSkipFinally(at) ==
    CASE at \in TryBody -> "except"
      [] at = "except" -> "exit"
      [] at = "finally" -> "exit"
      [] at \in {"launch", "new_page"} -> "exit"
      [] OTHER -> "ended"
OnRaise(at) ==
    CASE at \in TryBody -> "except"
      [] at = "except" -> "finally"
      [] at = "finally" -> "exit"
      [] at \in {"launch", "new_page"} -> "exit"
      [] OTHER -> "ended"

Advance(at, ok) == IF ok THEN Succ(at) ELSE OnRaise(at)

\* Exit status of the process: an exception that reaches the top level of
\* the script terminates the interpreter with a non-zero status.
ExitStatusSwallow(e) == "success"
ExitStatus(e) == IF e = "none" THEN "success" ELSE "failure"

\* page.screenshot(path=...) replaces whatever is at the path.
WriteFileKeep(fs, path, r) == IF fs[path] = 0 THEN [fs EXCEPT ![path] = r] ELSE fs
WriteFile(fs, path, r) == [fs EXCEPT ![path] = r]

\* The except block: log the error, then capture the error screenshot.
HandlerEventsShotFirst(ok) == <<Call("screenshot", ErrorPath, ok), Log(MsgError)>>
HandlerEvents(ok) == <<Log(MsgError), Call("screenshot", ErrorPath, ok)>>

\* ------------------------------------------------------------------- state
Init ==
    /\ pc = "enter"
    /\ exc = "none"
    /\ status = "running"
    /\ browser = "none"
    /\ page = FALSE
    /\ trace = <<>>
    /\ files = [p \in Paths |-> 0]
    /\ filesAtStart = [p \in Paths |-> 0]
    /\ run = 1
    /\ app \in AppStates
    /\ sameApp = FALSE

\* One statement (with its preceding log line and locator) is executed.
Do(at, events, ok) ==
    /\ pc = at
    /\ trace' = trace \o events
    /\ pc' = Advance(at, ok)
    /\ exc' = IF ok THEN exc ELSE at
    /\ status' = IF pc' = "ended" THEN ExitStatus(exc') ELSE status

EnterPlaywright ==
    \E ok \in BOOLEAN :
        /\ Do("enter", <<Call("sync_playwright", "", ok)>>, ok)
        /\ UNCHANGED <<browser, page, files, filesAtStart, run, app, sameApp>>

Launch ==
    \E ok \in BOOLEAN :
        /\ Do("launch", <<Call("launch", "", ok)>>, ok)
        /\ browser' = IF ok THEN "open" ELSE browser
        /\ UNCHANGED <<page, files, filesAtStart, run, app, sameApp>>

NewPage ==
    \E ok \in BOOLEAN :
        /\ Do("new_page", <<Call("new_page", "", ok)>>, ok)
        /\ page' = ok
        /\ UNCHANGED <<browser, files, filesAtStart, run, app, sameApp>>

Goto ==
    /\ Do("goto", <<Log(MsgNavigating), Call("goto", Url, app.up)>>, app.up)
    /\ UNCHANGED <<browser, page, files, filesAtStart, run, app, sameApp>>

WaitTrigger ==
    LET ok == WaitOk(app.trigger, TriggerTimeout) IN
    /\ Do("wait_trigger", <<Log(MsgWaiting), Locator(TriggerSel),
                            Call("wait_for", TriggerSel, ok)>>, ok)
    /\ UNCHANGED <<browser, page, files, filesAtStart, run, app, sameApp>>

ScreenshotInitial ==
    \E ok \in BOOLEAN :
        /\ Do("shot_initial", <<Log(MsgInitial), Call("screenshot", InitialPath, ok)>>, ok)
        /\ files' = IF ok THEN WriteFile(files, InitialPath, run) ELSE files
        /\ UNCHANGED <<browser, page, filesAtStart, run, app, sameApp>>

Click ==
    /\ Do("click", <<Log(MsgOpening), Call("click", TriggerSel, app.clickable)>>,
          app.clickable)
    /\ UNCHANGED <<browser, page, files, filesAtStart, run, app, sameApp>>

WaitPopover ==
    LET ok == WaitOk(app.popover, PopoverTimeout) IN
    /\ Do("wait_popover", <<Locator(PopoverSel), Call("wait_for", PopoverSel, ok)>>, ok)
    /\ UNCHANGED <<browser, page, files, filesAtStart, run, app, sameApp>>

Hover ==
    /\ Do("hover", <<Log(MsgHovering), Locator(CellSel),
                     Call("hover", CellSel, app.cell)>>, app.cell)
    /\ UNCHANGED <<browser, page, files, filesAtStart, run, app, sameApp>>

ScreenshotOpen ==
    \E ok \in BOOLEAN :
        /\ Do("shot_open", <<Log(MsgOpen), Call("screenshot", OpenPath, ok)>>, ok)
        /\ files' = IF ok THEN WriteFile(files, OpenPath, run) ELSE files
        /\ UNCHANGED <<browser, page, filesAtStart, run, app, sameApp>>

Completed ==
    /\ Do("completed", <<Log(MsgCompleted)>>, TRUE)
    /\ UNCHANGED <<browser, page, files, filesAtStart, run, app, sameApp>>

\* except Exception as e: print, page.screenshot(error path), raise e.
\* `raise e` keeps the caught exception in flight; a failing error
\* screenshot raises its own exception out of the handler instead.
ExceptHandler ==
    \E ok \in BOOLEAN :
        /\ pc = "except"
        /\ trace' = trace \o HandlerEvents(ok)
        /\ files' = IF ok THEN WriteFile(files, ErrorPath, run) ELSE files
        /\ pc' = Advance("except", ok)
        /\ exc' = IF ok THEN exc ELSE "except"
        /\ status' = IF pc' = "ended" THEN ExitStatus(exc') ELSE status
        /\ UNCHANGED <<browser, page, filesAtStart, run, app, sameApp>>

\* finally: browser.close()
Finally ==
    \E ok \in BOOLEAN :
        /\ Do("finally", <<Call("close", "", ok)>>, ok)
        /\ browser' = IF ok THEN "closed" ELSE browser
        /\ UNCHANGED <<page, files, filesAtStart, run, app, sameApp>>

\* Leaving the with block; the context manager does not swallow exceptions.
ExitPlaywright ==
    \E ok \in BOOLEAN :
        /\ Do("exit", <<Call("stop", "", ok)>>, ok)
        /\ UNCHANGED <<browser, page, files, filesAtStart, run, app, sameApp>>

\* The script is invoked again in the same working directory; the target
\* application may or may not have changed in between.
Rerun ==
    /\ pc = "ended"
    /\ run < MaxRuns
    /\ run' = run + 1
    /\ pc' = "enter"
    /\ exc' = "none"
    /\ status' = "running"
    /\ browser' = "none"
    /\ page' = FALSE
    /\ trace' = <<>>
    /\ filesAtStart' = files
    /\ \E a \in AppStates : app' = a /\ sameApp' = (a = app)
    /\ UNCHANGED files

Next ==
    \/ EnterPlaywright
    \/ Launch
    \/ NewPage
    \/ Goto
    \/ WaitTrigger
    \/ ScreenshotInitial
    \/ Click
    \/ WaitPopover
    \/ Hover
    \/ ScreenshotOpen
    \/ Completed
    \/ ExceptHandler
    \/ Finally
    \/ ExitPlaywright
    \/ Rerun

Spec == Init /\ [][Next]_vars

TypeOK ==
    /\ pc \in {Order[i] : i \in 1..Len(Order)} \cup {"except"}
    /\ status \in {"running", "success", "failure"}
    /\ browser \in {"none", "open", "closed"}
    /\ page \in BOOLEAN
    /\ run \in 1..MaxRuns
    /\ app \in AppStates
    /\ \A p \in Paths : files[p] \in 0..run /\ filesAtStart[p] \in 0..run

\* ------------------------------------------------- observations of a run
Idx == DOMAIN trace
Is(e, op, arg) == e.op = op /\ e.arg = arg
Count(op, arg) == Cardinality({i \in Idx : Is(trace[i], op, arg)})
OkCount(op, arg) == Cardinality({i \in Idx : Is(trace[i], op, arg) /\ trace[i].ok})
Has(op, arg) == \E i \in Idx : Is(trace[i], op, arg)
Succeeded(op, arg) == \E i \in Idx : Is(trace[i], op, arg) /\ trace[i].ok
Failed(op, arg) == \E i \in Idx : Is(trace[i], op, arg) /\ ~trace[i].ok
\* Some (op1, arg1) call of the given kind precedes every (op2, arg2) call.
OkBefore(op1, arg1, op2, arg2) ==
    \A j \in Idx : Is(trace[j], op2, arg2) =>
        \E i \in 1..(j - 1) : Is(trace[i], op1, arg1) /\ trace[i].ok
AllOk == \A i \in Idx : trace[i].ok
Ended == pc = "ended"

\* The calls of the scripted sequence (navigate ... open screenshot).
StepCalls == {<<"goto", Url>>, <<"wait_for", TriggerSel>>, <<"screenshot", InitialPath>>,
              <<"click", TriggerSel>>, <<"wait_for", PopoverSel>>, <<"hover", CellSel>>,
              <<"screenshot", OpenPath>>}
IsStep(e) == <<e.op, e.arg>> \in StepCalls
ErrShotIdx == {i \in Idx : Is(trace[i], "screenshot", ErrorPath)}

\* ------------------------------------------------------------------ claims

\* C1: in every run, a browser that was launched is closed exactly once
\* before the run ends (never zero times, never twice).
C1_ClosedExactlyOnce ==
    /\ Count("close", "") <= 1
    /\ (Ended /\ Succeeded("launch", "")) => Count("close", "") = 1

C3_Original ==
    (Ended /\ Failed("wait_for", TriggerSel)) =>
        /\ OkCount("screenshot", InitialPath) = 0
        /\ OkCount("screenshot", OpenPath) = 0
        /\ OkCount("screenshot", ErrorPath) = 1
        /\ status = "failure"

\* C3 amended: if the trigger wait times out, the run attempts neither
\* success screenshot, attempts the error screenshot exactly once -- so
\* verification_error.png is written once if that capture succeeds and not
\* at all if it fails -- and ends with failure status.
C3_TriggerTimeout ==
    (Ended /\ Failed("wait_for", TriggerSel)) =>
        /\ app.trigger > TriggerTimeout
        /\ Count("screenshot", InitialPath) = 0
        /\ Count("screenshot", OpenPath) = 0
        /\ files[InitialPath] = filesAtStart[InitialPath]
        /\ files[OpenPath] = filesAtStart[OpenPath]
        /\ Count("screenshot", ErrorPath) = 1
        /\ IF Succeeded("screenshot", ErrorPath)
             THEN files[ErrorPath] = run
             ELSE files[ErrorPath] = filesAtStart[ErrorPath]
        /\ status = "failure"
C3_Witness ==
    Ended /\ Failed("wait_for", TriggerSel) /\ Succeeded("screenshot", ErrorPath)

\* C4 as stated: trigger visible and clicked, popover wait times out: the
\* run writes verification_initial.png, not verification_open.png, writes
\* verification_error.png exactly once and fails.
C4_Original ==
    (Ended /\ Succeeded("click", TriggerSel) /\ Failed("wait_for", PopoverSel)) =>
        /\ OkCount("screenshot", InitialPath) = 1
        /\ OkCount("screenshot", OpenPath) = 0
        /\ OkCount("screenshot", ErrorPath) = 1
        /\ status = "failure"

\* C4 amended: trigger visible and clicked, popover wait times out: the run
\* has written verification_initial.png, does not attempt
\* verification_open.png, attempts the error screenshot exactly once -- so
\* verification_error.png is written once if that capture succeeds and not
\* at all if it fails -- and ends with failure status.
C4_PopoverTimeout ==
    (Ended /\ Succeeded("click", TriggerSel) /\ Failed("wait_for", PopoverSel)) =>
        /\ app.trigger <= TriggerTimeout /\ app.popover > PopoverTimeout
        /\ OkCount("screenshot", InitialPath) = 1
        /\ files[InitialPath] = run
        /\ Count("screenshot", OpenPath) = 0
        /\ files[OpenPath] = filesAtStart[OpenPath]
        /\ Count("screenshot", ErrorPath) = 1
        /\ IF Succeeded("screenshot", ErrorPath)
             THEN files[ErrorPath] = run
             ELSE files[ErrorPath] = filesAtStart[ErrorPath]
        /\ status = "failure"
C4_Witness ==
    /\ Ended /\ Succeeded("click", TriggerSel) /\ Failed("wait_for", PopoverSel)
    /\ Succeeded("screenshot", ErrorPath)

\* C5: the grid-cell lookup and the hover happen only after the popover
\* wait succeeded in the same run, and the click happens only after the
\* trigger wait succeeded and the initial screenshot was taken.
C5_Ordering ==
    /\ OkBefore("wait_for", PopoverSel, "locator", CellSel)
    /\ OkBefore("wait_for", PopoverSel, "hover", CellSel)
    /\ OkBefore("wait_for", TriggerSel, "click", TriggerSel)
    /\ OkBefore("screenshot", InitialPath, "click", TriggerSel)
    /\ (pc = "hover" => Succeeded("wait_for", PopoverSel))
    /\ (Failed("wait_for", PopoverSel) => ~Has("hover", CellSel) /\ ~Has("locator", CellSel))
C5_Witness == Has("hover", CellSel) /\ Succeeded("wait_for", PopoverSel)

\* C6: a failure raised in any of steps 2 to 8 (new page, navigation,
\* trigger wait, initial screenshot, click, popover wait, hover, open
\* screenshot) is caught by the handler, which attempts the error
\* screenshot, and the run ends in failure.
C6_FailureCaught ==
    (Ended /\ (Failed("new_page", "") \/ \E i \in Idx : IsStep(trace[i]) /\ ~trace[i].ok)) =>
        /\ Count("screenshot", ErrorPath) = 1
        /\ status = "failure"

\* C7 as stated: after a second run against the same application state,
\* every artifact present was written by the second run.
C7_Original ==
    (Ended /\ run >= 2 /\ sameApp) =>
        \A p \in Paths : files[p] # 0 => files[p] = run

\* C7 amended: an artifact the later run writes replaces what was at its
\* path, and an artifact the later run does not write is left exactly as
\* the earlier run left it (nothing is ever deleted); hence every artifact
\* present after the later run was written by it provided that run writes
\* every artifact that was present when it started, as it does when it
\* takes the same path as the earlier run.
C7_Overwrite ==
    (Ended /\ run >= 2) =>
        /\ \A p \in Paths :
              IF Succeeded("screenshot", p) THEN files[p] = run
                                            ELSE files[p] = filesAtStart[p]
        /\ (\A p \in Paths : filesAtStart[p] # 0 => Succeeded("screenshot", p))
              => \A p \in Paths : files[p] # 0 => files[p] = run
C7_Witness ==
    /\ Ended /\ run >= 2 /\ sameApp
    /\ \E p \in Paths : filesAtStart[p] # 0
    /\ \A p \in Paths : filesAtStart[p] # 0 => Succeeded("screenshot", p)

\* C8: no failure is recovered or retried: each step of the sequence is
\* executed at most once per run, no step is executed after the first one
\* that failed, such a run ends with failure status, and a run ends with
\* success status only if no step failed.
C8_NoRetry ==
    /\ \A c \in StepCalls : Count(c[1], c[2]) <= 1
    /\ \A i \in Idx : (IsStep(trace[i]) /\ ~trace[i].ok) =>
          \A j \in Idx : j > i => ~IsStep(trace[j])
    /\ (Ended /\ \E i \in Idx : IsStep(trace[i]) /\ ~trace[i].ok) => status = "failure"
    /\ status = "success" => \A i \in Idx : IsStep(trace[i]) => trace[i].ok
C8_Witness ==
    /\ Ended /\ status = "failure"
    /\ Failed("click", TriggerSel)
    /\ Succeeded("screenshot", InitialPath)

\* C9 as stated: on the failure path the error log line is emitted only
\* after the error screenshot capture has been performed.
C9_Original == OkBefore("screenshot", ErrorPath, "print", MsgError)
                 /\ \A i \in ErrShotIdx : \E j \in Idx : j > i /\ Is(trace[j], "print", MsgError)

\* C9 amended: on the failure path the Runner first logs the error, then
\* captures the error screenshot, and then re-raises: the error screenshot
\* is attempted only after the error log line has been emitted, and the
\* run ends with failure status.
C9_LogThenShot ==
    /\ OkBefore("print", MsgError, "screenshot", ErrorPath)
    /\ \A j \in Idx : Is(trace[j], "print", MsgError) =>
          (j < Len(trace) /\ Is(trace[j + 1], "screenshot", ErrorPath))
    /\ (Ended /\ Has("screenshot", ErrorPath)) => status = "failure"
C9_Witness == Ended /\ Succeeded("screenshot", ErrorPath) /\ Has("print", MsgError)

\* C10: if the error screenshot inside the handler fails, the run still
\* closes the browser exactly once and ends with failure status, executes
\* no step of the sequence afterwards, makes no second error-screenshot
\* attempt, and the original error was logged before the attempt.
C10_ErrorShotFails ==
    Failed("screenshot", ErrorPath) =>
        /\ Count("screenshot", ErrorPath) = 1
        /\ files[ErrorPath] = filesAtStart[ErrorPath]
        /\ OkBefore("print", MsgError, "screenshot", ErrorPath)
        /\ \A i \in ErrShotIdx : \A j \in Idx : j > i => ~IsStep(trace[j])
        /\ Count("print", MsgCompleted) = 0
        /\ Ended => (Count("close", "") = 1 /\ status = "failure")
C10_Witness == Ended /\ Failed("screenshot", ErrorPath) /\ Count("close", "") = 1
====
